---- MODULE Spec2Model ----
(***************************************************************************)
(* A model of AniListrr's main.py: the season calculator, the catalog      *)
(* fetch, the entry filter, the MAL -> TVDB/TMDB cross-reference table,    *)
(* the resolver and the four output files written by main().               *)
(*                                                                         *)
(* Representation.  A JSON value that may be null is a sequence of length  *)
(* at most one: None is <<>> and the integer 10 read from JSON is <<10>>;  *)
(* int(v) unwraps it.  A Python str that is formatted, concatenated or     *)
(* sorted (titles, audit lines, stringified ids) is a sequence of          *)
(* one-character strings; season names, media types and file names, which  *)
(* are only compared for equality, are TLA+ strings.  A dict is a function *)
(* whose DOMAIN is its key set.  MAL's "mean" (two decimals) is counted in *)
(* hundredths, so 7.8 is 780.                                              *)
(***************************************************************************)
EXTENDS Integers, Sequences, FiniteSets, TLC

VARIABLES
    clock,        \* datetime.now(): [month, year]
    environ,      \* os.environ.get("MAL_CLIENT_ID", "")
    seasonFrame,  \* one call of get_current_season_and_year
    filterFrame,  \* one call of filter_anime_entries
    createFrame,  \* the loop of create_mal_to_db_mapping over a fetched feed
    mapFrame,     \* one call of map_mal_to_db
    pc,           \* main(): position
    i,            \* main(): the season loop's index
    mal_to_db_map,\* main(): the cross-reference table
    raw_entries,  \* main(): entries accumulated over the seasons
    season_keys,  \* main(): the (season, year) computed at each iteration
    requests,     \* every HTTP request issued so far, in order
    error,        \* the exception that ended main(), "" while none
    resolved,     \* main(): tvdb_ids, tv_titles, tmdb_ids_movies, movie_titles
    files         \* the four output paths: their content and who wrote it

vars == <<clock, environ, seasonFrame, filterFrame, createFrame, mapFrame, pc, i,
          mal_to_db_map, raw_entries, season_keys, requests, error, resolved, files>>

mainVars == <<pc, i, mal_to_db_map, raw_entries, season_keys, requests, error,
              resolved, files>>

(***************************************************************************)
(* Bounds of the model.                                                    *)
(***************************************************************************)
MaxNegSeasons == 12
MaxEntries == 3
MaxFeed == 3
MaxCandidates == 3

Years == {2024, 2025}
Months == 1..12

\* A frame of a function that is not being called.
Idle == [pc |-> "idle"]

(***************************************************************************)
(* Python values.                                                          *)
(***************************************************************************)
None == <<>>

Some(v) == <<v>>

\* the value of a JSON value that is not null
Val(v) == v[1]

\* int(v) of a non-null JSON integer
ToInt(v) == Val(v)

\* {}
EmptyDict == [k \in {} |-> None]

\* d[key] = value
DictSet(d, key, value) ==
    [k \in (DOMAIN d) \cup {key} |-> IF k = key THEN value ELSE d[k]]

\* "if x:" for an optional str: None and "" are false
Truthy(x) == x # None /\ x # Some("")

\* dict.get(key, default)
Get(d, key, default) == IF key \in DOMAIN d THEN d[key] ELSE default

\* The characters the model's strings use, in code-point order.
Alphabet ==
    << " ", "-", "0", "1", "2", "3", "4", "5", "6", "7", "8", "9", ":", ">", "?",
       "A", "B", "D", "L", "M", "N", "T", "V", "e", "i", "l", "n", "o", "t" >>

Ord(c) == CHOOSE k \in 1..Len(Alphabet) : Alphabet[k] = c

Digits == << "0", "1", "2", "3", "4", "5", "6", "7", "8", "9" >>

DigitOf(c) == (CHOOSE k \in 1..Len(Digits) : Digits[k] = c) - 1

\* str(n) of a non-negative int: its decimal digits, most significant first
RECURSIVE StrInt(_)
StrInt(n) == IF n < 10 THEN << Digits[n + 1] >>
             ELSE StrInt(n \div 10) \o << Digits[(n % 10) + 1] >>

\* str(v) of a JSON value that may be null
Str(v) == IF v = None THEN << "N", "o", "n", "e" >> ELSE StrInt(ToInt(v))

\* int(s) of a decimal string
RECURSIVE ParseInt(_)
ParseInt(s) == IF Len(s) = 0 THEN 0
               ELSE 10 * ParseInt(SubSeq(s, 1, Len(s) - 1)) + DigitOf(s[Len(s)])

\* s < t for Python str: lexicographic by code point, a proper prefix first
RECURSIVE StrLess(_, _)
StrLess(s, t) ==
    IF Len(t) = 0 THEN FALSE
    ELSE IF Len(s) = 0 THEN TRUE
    ELSE IF s[1] # t[1] THEN Ord(s[1]) < Ord(t[1])
    ELSE StrLess(Tail(s), Tail(t))

\* str.lower() on the media types the catalog and the callers use
Lower(s) ==
    CASE s = "TV" -> "tv"
      [] s = "Tv" -> "tv"
      [] s = "ONA" -> "ona"
      [] s = "Movie" -> "movie"
      [] s = "MOVIE" -> "movie"
      [] OTHER -> s

(***************************************************************************)
(* get_current_season_and_year                                             *)
(***************************************************************************)
\* month = now.month - (neg_seasons * 3)
MonthBack(now_month, neg_seasons) == now_month - (neg_seasons * 3)

\* A slip of the single wrap: the boundary month 0 is not wrapped.
WrapMonthOffByOne(month, year) ==
    IF month < 0 THEN [month |-> 12 + month, year |-> year - 1]
    ELSE [month |-> month, year |-> year]

\* if month < 1: month = 12 + month; year = year - 1
WrapMonth(month, year) ==
    IF month < 1 THEN [month |-> 12 + month, year |-> year - 1]
    ELSE [month |-> month, year |-> year]

\* the quarter buckets; every month outside 1..9 falls to the else branch
SeasonOf(month) ==
    IF month \in {1, 2, 3} THEN "winter"
    ELSE IF month \in {4, 5, 6} THEN "spring"
    ELSE IF month \in {7, 8, 9} THEN "summer"
    ELSE "fall"

\* The whole function; month is the value that reached the bucket test.
GetCurrentSeasonAndYear(now, neg_seasons) ==
    LET w == WrapMonth(MonthBack(now.month, neg_seasons), now.year)
    IN  [season |-> SeasonOf(w.month), year |-> w.year, month |-> w.month]

\* --- the function, statement by statement ---
SeasonCall ==
    /\ seasonFrame.pc = "idle"
    /\ \E n \in 0..MaxNegSeasons :
         seasonFrame' = [pc |-> "wrap", neg_seasons |-> n,
                         month |-> MonthBack(clock.month, n), year |-> clock.year]
    /\ UNCHANGED <<clock, environ, filterFrame, createFrame, mapFrame, mainVars>>

SeasonWrap ==
    /\ seasonFrame.pc = "wrap"
    /\ LET w == WrapMonth(seasonFrame.month, seasonFrame.year)
       IN  seasonFrame' = [seasonFrame EXCEPT !.pc = "bucket",
                                              !.month = w.month, !.year = w.year]
    /\ UNCHANGED <<clock, environ, filterFrame, createFrame, mapFrame, mainVars>>

SeasonBucket ==
    /\ seasonFrame.pc = "bucket"
    /\ seasonFrame' = [pc |-> "return", neg_seasons |-> seasonFrame.neg_seasons,
                       month |-> seasonFrame.month, year |-> seasonFrame.year,
                       season |-> SeasonOf(seasonFrame.month)]
    /\ UNCHANGED <<clock, environ, filterFrame, createFrame, mapFrame, mainVars>>

MainIdle ==
    /\ pc = "idle" /\ i = 0 /\ mal_to_db_map = << >> /\ raw_entries = << >>
    /\ season_keys = << >> /\ requests = << >> /\ error = ""
    /\ resolved = Idle /\ files = Idle

InitSeason ==
    /\ clock \in [month : Months, year : Years]
    /\ environ = ""
    /\ seasonFrame = Idle
    /\ filterFrame = Idle /\ createFrame = Idle /\ mapFrame = Idle
    /\ MainIdle

NextSeason == SeasonCall \/ SeasonWrap \/ SeasonBucket

SpecSeason == InitSeason /\ [][NextSeason]_vars

(***************************************************************************)
(* filter_anime_entries                                                    *)
(***************************************************************************)
\* A slip of the score test: strictly greater instead of at least.
FilterStepStrict(acc, entry, min_score, min_votes, media_type_filter) ==
    LET anime_data == Get(entry, "node", EmptyDict)
        mal_id == Get(anime_data, "id", None)
        score == Get(anime_data, "mean", 0)
        title == Get(anime_data, "title", None)
        num_scoring_users == Get(anime_data, "num_scoring_users", 0)
        media_type == Lower(Get(anime_data, "media_type", ""))
    IN  IF Truthy(media_type_filter) /\ media_type # Lower(Val(media_type_filter))
        THEN acc
        ELSE IF score > min_score /\ num_scoring_users >= min_votes
             THEN Append(acc, <<mal_id, title>>)
             ELSE acc

\* One iteration of the loop over entries.
FilterStep(acc, entry, min_score, min_votes, media_type_filter) ==
    LET anime_data == Get(entry, "node", EmptyDict)
        mal_id == Get(anime_data, "id", None)
        score == Get(anime_data, "mean", 0)
        title == Get(anime_data, "title", None)
        num_scoring_users == Get(anime_data, "num_scoring_users", 0)
        media_type == Lower(Get(anime_data, "media_type", ""))
    IN  IF Truthy(media_type_filter) /\ media_type # Lower(Val(media_type_filter))
        THEN acc
        ELSE IF score >= min_score /\ num_scoring_users >= min_votes
             THEN Append(acc, <<mal_id, title>>)
             ELSE acc

\* The whole function.
RECURSIVE FilterAnimeEntries(_, _, _, _)
FilterAnimeEntries(entries, min_score, min_votes, media_type_filter) ==
    IF Len(entries) = 0 THEN << >>
    ELSE FilterStep(FilterAnimeEntries(SubSeq(entries, 1, Len(entries) - 1),
                                       min_score, min_votes, media_type_filter),
                    entries[Len(entries)], min_score, min_votes, media_type_filter)

\* Catalog entries: {node: {id, title, mean, num_scoring_users, media_type}},
\* some without a score, a vote count or a media type.
Node(id, title, mean, votes, media_type) ==
    [node |-> [id |-> id, title |-> title, mean |-> mean,
               num_scoring_users |-> votes, media_type |-> media_type]]

CatalogEntries ==
    { Node(1, <<"A">>, 800, 2000, "tv"),
      Node(2, <<"B">>, 700, 2000, "tv"),
      Node(3, <<"A">>, 780, 1000, "TV"),
      Node(1, <<"A">>, 779, 5000, "ona"),
      [node |-> [id |-> 4, title |-> <<"B">>, num_scoring_users |-> 2000,
                 media_type |-> "Movie"]],
      [node |-> [id |-> 5, title |-> <<"B">>, mean |-> 790]] }

RECURSIVE SeqsUpTo(_, _)
SeqsUpTo(S, n) ==
    IF n = 0 THEN { << >> }
    ELSE LET shorter == SeqsUpTo(S, n - 1)
         IN  shorter \cup { Append(q, x) : q \in shorter, x \in S }

ScoreThresholds == {0, 770, 780}
VoteThresholds == {0, 1000}
MediaTypeFilters == { None, Some(""), Some("tv"), Some("TV"), Some("movie") }

InitFilter ==
    /\ clock \in [month : {1}, year : {2025}]
    /\ environ = ""
    /\ seasonFrame = Idle /\ createFrame = Idle /\ mapFrame = Idle
    /\ \E entries \in SeqsUpTo(CatalogEntries, MaxEntries),
          min_score \in ScoreThresholds, min_votes \in VoteThresholds,
          media_type_filter \in MediaTypeFilters :
         filterFrame = [pc |-> "loop", entries |-> entries, min_score |-> min_score,
                        min_votes |-> min_votes,
                        media_type_filter |-> media_type_filter,
                        idx |-> 0, filtered_ids_and_titles |-> << >>]
    /\ MainIdle

FilterLoop ==
    /\ filterFrame.pc = "loop"
    /\ filterFrame.idx < Len(filterFrame.entries)
    /\ filterFrame' =
         [filterFrame EXCEPT
            !.idx = @ + 1,
            !.filtered_ids_and_titles =
                FilterStep(@, filterFrame.entries[filterFrame.idx + 1],
                           filterFrame.min_score, filterFrame.min_votes,
                           filterFrame.media_type_filter)]
    /\ UNCHANGED <<clock, environ, seasonFrame, createFrame, mapFrame, mainVars>>

FilterReturn ==
    /\ filterFrame.pc = "loop"
    /\ filterFrame.idx = Len(filterFrame.entries)
    /\ filterFrame' = [filterFrame EXCEPT !.pc = "return"]
    /\ UNCHANGED <<clock, environ, seasonFrame, createFrame, mapFrame, mainVars>>

NextFilter == FilterLoop \/ FilterReturn

SpecFilter == InitFilter /\ [][NextFilter]_vars

(***************************************************************************)
(* create_mal_to_db_mapping: the loop over the parsed feed                 *)
(***************************************************************************)
\* A slip of the overwrite: a later record is merged field by field into the
\* entry an earlier record left.
CreateStepMerge(map, item) ==
    IF "mal_id" \in DOMAIN item
    THEN LET mal_id == Get(item, "mal_id", None)
             tvdb_id == Get(item, "tvdb_id", None)
             tmdb_id == Get(item, "themoviedb_id", None)
         IN  IF mal_id # None /\ (tvdb_id # None \/ tmdb_id # None)
             THEN LET old == Get(map, ToInt(mal_id), [tvdb_id |-> None, tmdb_id |-> None])
                  IN  DictSet(map, ToInt(mal_id),
                              [tvdb_id |-> IF tvdb_id = None THEN old.tvdb_id ELSE tvdb_id,
                               tmdb_id |-> IF tmdb_id = None THEN old.tmdb_id ELSE tmdb_id])
             ELSE map
    ELSE map

\* One iteration of the loop over the feed's records.
CreateStep(map, item) ==
    IF "mal_id" \in DOMAIN item
    THEN LET mal_id == Get(item, "mal_id", None)
             tvdb_id == Get(item, "tvdb_id", None)
             tmdb_id == Get(item, "themoviedb_id", None)
         IN  IF mal_id # None /\ (tvdb_id # None \/ tmdb_id # None)
             THEN DictSet(map, ToInt(mal_id), [tvdb_id |-> tvdb_id, tmdb_id |-> tmdb_id])
             ELSE map
    ELSE map

\* The table built from a parsed feed.
RECURSIVE CreateMalToDbMapping(_)
CreateMalToDbMapping(data) ==
    IF Len(data) = 0 THEN EmptyDict
    ELSE CreateStep(CreateMalToDbMapping(SubSeq(data, 1, Len(data) - 1)), data[Len(data)])

\* Feed records: mal_id, tvdb_id and themoviedb_id are each optional and nullable.
FeedRecords ==
    { [mal_id |-> Some(1), tvdb_id |-> Some(10), themoviedb_id |-> None],
      [mal_id |-> Some(1), tvdb_id |-> None, themoviedb_id |-> Some(7)],
      [mal_id |-> Some(1), tvdb_id |-> None],
      [mal_id |-> Some(2), tvdb_id |-> Some(9), themoviedb_id |-> Some(7)],
      [mal_id |-> Some(2), themoviedb_id |-> Some(12)],
      [tvdb_id |-> Some(9), themoviedb_id |-> Some(7)],
      [mal_id |-> None, tvdb_id |-> Some(9), themoviedb_id |-> Some(7)] }

InitCreate ==
    /\ clock \in [month : {1}, year : {2025}]
    /\ environ = ""
    /\ seasonFrame = Idle /\ filterFrame = Idle /\ mapFrame = Idle
    /\ \E data \in SeqsUpTo(FeedRecords, MaxFeed) :
         createFrame = [pc |-> "loop", data |-> data, idx |-> 0,
                        mal_to_db_map |-> EmptyDict]
    /\ MainIdle

CreateLoop ==
    /\ createFrame.pc = "loop"
    /\ createFrame.idx < Len(createFrame.data)
    /\ createFrame' =
         [createFrame EXCEPT
            !.idx = @ + 1,
            !.mal_to_db_map = CreateStep(@, createFrame.data[createFrame.idx + 1])]
    /\ UNCHANGED <<clock, environ, seasonFrame, filterFrame, mapFrame, mainVars>>

CreateReturn ==
    /\ createFrame.pc = "loop"
    /\ createFrame.idx = Len(createFrame.data)
    /\ createFrame' = [createFrame EXCEPT !.pc = "return"]
    /\ UNCHANGED <<clock, environ, seasonFrame, filterFrame, mapFrame, mainVars>>

NextCreate == CreateLoop \/ CreateReturn

SpecCreate == InitCreate /\ [][NextCreate]_vars

(***************************************************************************)
(* map_mal_to_db                                                           *)
(***************************************************************************)
\* f"{db}_id"
DbKey(db) == IF db = "tvdb" THEN "tvdb_id" ELSE "tmdb_id"

Arrow == << "-", ">" >>
Unmapped == << "?" >>
ColonSpace == << ":", " " >>

\* str(mal_id) + "->?" + ": "
UnknownPrefix(mal_id) == StrInt(mal_id) \o Arrow \o Unmapped \o ColonSpace

\* str(mal_id) + "->" + str(db_id) + ": "
MappedPrefix(mal_id, db_id) == StrInt(mal_id) \o Arrow \o Str(db_id) \o ColonSpace

\* A slip of the dedup test: the membership test is dropped, so a target id that
\* was already resolved gets a second found line.
MapStepNoDedup(st, cand, table, db) ==
    LET mal_id == cand[1]
        title == cand[2]
    IN  IF mal_id \in DOMAIN table
        THEN LET db_id == Get(table[mal_id], DbKey(db), None)
                 prefix_str == MappedPrefix(mal_id, db_id)
             IN  IF db_id = None
                 THEN [st EXCEPT !.unknown_titles = Append(@, prefix_str \o title)]
                 ELSE [st EXCEPT !.db_ids = @ \cup {ToInt(db_id)},
                                 !.found_titles = Append(@, prefix_str \o title)]
        ELSE [st EXCEPT !.unknown_titles = Append(@, UnknownPrefix(mal_id) \o title)]

\* A slip of the branches: a target id that was already resolved falls into the
\* unknown list instead of being skipped.
MapStepDupUnknown(st, cand, table, db) ==
    LET mal_id == cand[1]
        title == cand[2]
    IN  IF mal_id \in DOMAIN table
        THEN LET db_id == Get(table[mal_id], DbKey(db), None)
                 prefix_str == MappedPrefix(mal_id, db_id)
             IN  IF db_id # None /\ ToInt(db_id) \notin st.db_ids
                 THEN [st EXCEPT !.db_ids = @ \cup {ToInt(db_id)},
                                 !.found_titles = Append(@, prefix_str \o title)]
                 ELSE [st EXCEPT !.unknown_titles = Append(@, prefix_str \o title)]
        ELSE [st EXCEPT !.unknown_titles = Append(@, UnknownPrefix(mal_id) \o title)]

\* A slip of the attribution: a later candidate that resolves to an already
\* resolved target id replaces the line of the earlier one.
MapStepLastWins(st, cand, table, db) ==
    LET mal_id == cand[1]
        title == cand[2]
    IN  IF mal_id \in DOMAIN table
        THEN LET db_id == Get(table[mal_id], DbKey(db), None)
                 prefix_str == MappedPrefix(mal_id, db_id)
                 target == StrInt(ToInt(db_id)) \o ColonSpace
                 tail(line) == SubSeq(line, Len(line) - Len(title) - Len(target) + 1,
                                      Len(line) - Len(title))
             IN  IF db_id = None
                 THEN [st EXCEPT !.unknown_titles = Append(@, prefix_str \o title)]
                 ELSE IF ToInt(db_id) \notin st.db_ids
                 THEN [st EXCEPT !.db_ids = @ \cup {ToInt(db_id)},
                                 !.found_titles = Append(@, prefix_str \o title)]
                 ELSE [st EXCEPT !.found_titles =
                          [k \in 1..Len(@) |->
                              IF tail(@[k]) = target THEN prefix_str \o title ELSE @[k]]]
        ELSE [st EXCEPT !.unknown_titles = Append(@, UnknownPrefix(mal_id) \o title)]

\* One iteration of the loop over the candidates.  "dbs is not None" is the key's
\* presence: the table holds no None value.
MapStep(st, cand, table, db) ==
    LET mal_id == cand[1]
        title == cand[2]
    IN  IF mal_id \in DOMAIN table
        THEN LET db_id == Get(table[mal_id], DbKey(db), None)
                 prefix_str == MappedPrefix(mal_id, db_id)
             IN  IF db_id = None
                 THEN [st EXCEPT !.unknown_titles = Append(@, prefix_str \o title)]
                 ELSE IF ToInt(db_id) \notin st.db_ids
                 THEN [st EXCEPT !.db_ids = @ \cup {ToInt(db_id)},
                                 !.found_titles = Append(@, prefix_str \o title)]
                 ELSE st
        ELSE [st EXCEPT !.unknown_titles = Append(@, UnknownPrefix(mal_id) \o title)]

\* db_ids = set(); found_titles = []; unknown_titles = []
MapStart == [db_ids |-> {}, found_titles |-> << >>, unknown_titles |-> << >>]

\* The whole function: the set of ids it returns as a list, the found lines, and
\* the unknown lines it prints.
RECURSIVE MapMalToDb(_, _, _)
MapMalToDb(mal_ids_and_titles, table, db) ==
    IF Len(mal_ids_and_titles) = 0 THEN MapStart
    ELSE MapStep(MapMalToDb(SubSeq(mal_ids_and_titles, 1, Len(mal_ids_and_titles) - 1),
                            table, db),
                 mal_ids_and_titles[Len(mal_ids_and_titles)], table, db)

\* Mapping feeds, and the tables create_mal_to_db_mapping builds from them:
\* a target id reached from two source ids, a null tvdb id, two-digit and
\* one-digit ids.
Rec(mal_id, tvdb_id, tmdb_id) ==
    [mal_id |-> Some(mal_id), tvdb_id |-> tvdb_id, themoviedb_id |-> tmdb_id]

Feeds ==
    { << Rec(1, Some(10), None), Rec(2, None, Some(7)) >>,
      << Rec(1, Some(10), Some(7)), Rec(2, Some(10), Some(7)), Rec(3, Some(9), None) >>,
      << Rec(1, Some(9), None), Rec(2, Some(10), Some(12)), Rec(3, Some(101), Some(7)),
         Rec(4, None, Some(12)) >> }

Tables == { CreateMalToDbMapping(f) : f \in Feeds }

Titles == { << "A" >>, << "B" >> }

Candidates == { <<id, t>> : id \in 1..3, t \in Titles }

InitMap ==
    /\ clock \in [month : {1}, year : {2025}]
    /\ environ = ""
    /\ seasonFrame = Idle /\ filterFrame = Idle /\ createFrame = Idle
    /\ \E cands \in SeqsUpTo(Candidates, MaxCandidates), table \in Tables,
          db \in {"tvdb", "tmdb"} :
         mapFrame = [pc |-> "loop", mal_ids_and_titles |-> cands,
                     mal_to_db_map |-> table, db |-> db, idx |-> 0,
                     db_ids |-> {}, found_titles |-> << >>, unknown_titles |-> << >>]
    /\ MainIdle

MapLoop ==
    /\ mapFrame.pc = "loop"
    /\ mapFrame.idx < Len(mapFrame.mal_ids_and_titles)
    /\ LET st == MapStep([db_ids |-> mapFrame.db_ids,
                          found_titles |-> mapFrame.found_titles,
                          unknown_titles |-> mapFrame.unknown_titles],
                         mapFrame.mal_ids_and_titles[mapFrame.idx + 1],
                         mapFrame.mal_to_db_map, mapFrame.db)
       IN  mapFrame' = [mapFrame EXCEPT !.idx = @ + 1,
                                        !.db_ids = st.db_ids,
                                        !.found_titles = st.found_titles,
                                        !.unknown_titles = st.unknown_titles]
    /\ UNCHANGED <<clock, environ, seasonFrame, filterFrame, createFrame, mainVars>>

MapReturn ==
    /\ mapFrame.pc = "loop"
    /\ mapFrame.idx = Len(mapFrame.mal_ids_and_titles)
    /\ mapFrame' = [mapFrame EXCEPT !.pc = "return"]
    /\ UNCHANGED <<clock, environ, seasonFrame, filterFrame, createFrame, mainVars>>

NextMap == MapLoop \/ MapReturn

SpecMap == InitMap /\ [][NextMap]_vars

(***************************************************************************)
(* HTTP: requests.get, raise_for_status, response.json                     *)
(***************************************************************************)
\* A response that never arrived (requests.get raises), and one that did.
NoResponse == [arrived |-> FALSE]

Response(status, parses, body) ==
    [arrived |-> TRUE, status |-> status, parses |-> parses, body |-> body]

\* A slip: the call to raise_for_status is left out.
RaiseForStatusOmitted(response) == FALSE

\* response.raise_for_status() raises HTTPError on a 4xx or 5xx status
RaiseForStatus(response) == response.status >= 400

\* requests.get(...); response.raise_for_status(); response.json():
\* the exception raised, "" when none
FetchError(response) ==
    IF ~response.arrived THEN "ConnectionError"
    ELSE IF RaiseForStatus(response) THEN "HTTPError"
    ELSE IF ~response.parses THEN "JSONDecodeError"
    ELSE ""

\* get_seasonal_anime: the credential test comes before the request
GetSeasonalAnime(mal_client_id, response) ==
    IF mal_client_id = ""
    THEN [error |-> "ValueError", requested |-> FALSE, data |-> << >>]
    ELSE LET e == FetchError(response)
         IN  [error |-> e, requested |-> TRUE,
              data |-> IF e = "" THEN Get(response.body, "data", << >>) ELSE << >>]

\* What the mapping feed may answer: a feed, a 404 page that is no JSON, nothing,
\* or a truncated document.
MappingResponses ==
    { Response(200, TRUE, f) : f \in Feeds }
        \cup { NoResponse, Response(404, FALSE, << >>), Response(200, FALSE, << >>) }

\* What the catalog may answer for a season: entries, an object without "data",
\* a JSON error object with status 403, nothing, or a truncated document.
SeasonBodies ==
    { [data |-> << Node(1, <<"A">>, 800, 2000, "tv"), Node(3, <<"A">>, 780, 1000, "TV"),
                   Node(2, <<"B">>, 790, 3000, "ona") >>],
      [data |-> << Node(4, <<"B">>, 775, 1500, "movie"), Node(5, <<"A">>, 900, 999, "movie"),
                   Node(3, <<"A">>, 770, 1000, "Movie"), Node(2, <<"B">>, 700, 2000, "tv") >>],
      [paging |-> << >>] }

SeasonResponses ==
    { Response(200, TRUE, b) : b \in SeasonBodies }
        \cup { NoResponse, Response(403, TRUE, [error |-> "forbidden"]),
               Response(200, FALSE, << >>) }

\* the fact, whatever the code makes of it: the request did not yield a document
Failed(response) == ~response.arrived \/ response.status >= 400 \/ ~response.parses

(***************************************************************************)
(* The output files                                                        *)
(***************************************************************************)
\* A slip of the ordering: the ids are stringified first and the strings sorted.
RECURSIVE SortedIdsAsText(_)
SortedIdsAsText(ids) ==
    IF ids = {} THEN << >>
    ELSE LET least == CHOOSE x \in ids :
                        \A y \in ids : x = y \/ StrLess(StrInt(x), StrInt(y))
         IN  << least >> \o SortedIdsAsText(ids \ {least})

\* sorted(tvdb_ids): ascending ints
RECURSIVE SortedIds(_)
SortedIds(ids) ==
    IF ids = {} THEN << >>
    ELSE LET least == CHOOSE x \in ids : \A y \in ids : x <= y
         IN  << least >> \o SortedIds(ids \ {least})

\* [{"tvdbId": str(id)} for id in sorted(ids)], the document json.dump writes
SonarrList(tvdb_ids) ==
    LET ordered == SortedIds(tvdb_ids)
    IN  [k \in 1..Len(ordered) |-> [tvdbId |-> StrInt(ordered[k])]]

\* [{"id": str(id)} for id in sorted(ids)]
RadarrList(tmdb_ids) ==
    LET ordered == SortedIds(tmdb_ids)
    IN  [k \in 1..Len(ordered) |-> [id |-> StrInt(ordered[k])]]

\* sorted(titles): ascending str, equal strings kept in order
RECURSIVE InsertStr(_, _)
InsertStr(sorted, s) ==
    IF Len(sorted) = 0 THEN << s >>
    ELSE IF StrLess(s, sorted[Len(sorted)])
         THEN Append(InsertStr(SubSeq(sorted, 1, Len(sorted) - 1), s), sorted[Len(sorted)])
         ELSE Append(sorted, s)

RECURSIVE SortedStrs(_)
SortedStrs(titles) ==
    IF Len(titles) = 0 THEN << >>
    ELSE InsertStr(SortedStrs(SubSeq(titles, 1, Len(titles) - 1)), titles[Len(titles)])

\* "\n".join(lines)
RECURSIVE JoinLines(_)
JoinLines(lines) ==
    IF Len(lines) = 0 THEN << >>
    ELSE IF Len(lines) = 1 THEN lines[1]
    ELSE lines[1] \o << "\n" >> \o JoinLines(Tail(lines))

TvHeader ==
    << "M", "A", "L", "-", ">", "T", "V", "D", "B", ":", " ", "T", "i", "t", "l", "e" >>

MovieHeader ==
    << "M", "A", "L", "-", ">", "T", "M", "D", "B", ":", " ", "T", "i", "t", "l", "e" >>

\* header + "\n" + "\n".join(sorted(titles))
TextReport(header, titles) == header \o << "\n" >> \o JoinLines(SortedStrs(titles))

FileNames ==
    { "filtered_anime.json", "filtered_anime.txt",
      "filtered_anime_movies.json", "filtered_anime_movies.txt" }

\* open(path, "w") and the write: the file holds the new content, or, when the
\* write raises, is left as the failed write left it
WriteFile(path, content, ok) ==
    IF ok THEN [files EXCEPT ![path] = [state |-> "written", content |-> content]]
    ELSE [files EXCEPT ![path] = [state |-> "partial", content |-> << >>]]

(***************************************************************************)
(* main                                                                    *)
(***************************************************************************)
\* range(4)
SeasonWindow == 4

unitFrames == <<seasonFrame, filterFrame, createFrame, mapFrame>>

Init ==
    /\ clock \in [month : Months, year : Years]
    /\ environ \in {"", "client-id"}
    /\ seasonFrame = Idle /\ filterFrame = Idle /\ createFrame = Idle /\ mapFrame = Idle
    /\ pc = "create_mapping"
    /\ i = 0
    /\ mal_to_db_map = EmptyDict
    /\ raw_entries = << >>
    /\ season_keys = << >>
    /\ requests = << >>
    /\ error = ""
    /\ resolved = [tvdb_ids |-> {}, tv_titles |-> << >>,
                   tmdb_ids_movies |-> {}, movie_titles |-> << >>]
    /\ files = [f \in FileNames |-> [state |-> "previous", content |-> << >>]]

\* mal_to_db_map = create_mal_to_db_mapping()
CreateMapping ==
    /\ pc = "create_mapping"
    /\ \E response \in MappingResponses :
         LET e == FetchError(response)
         IN  /\ requests' = Append(requests, [endpoint |-> "anime-list-mini.json",
                                              failed |-> Failed(response)])
             /\ error' = e
             /\ pc' = IF e = "" THEN "season_loop" ELSE "aborted"
             /\ mal_to_db_map' = IF e = "" THEN CreateMalToDbMapping(response.body)
                                 ELSE mal_to_db_map
    /\ UNCHANGED <<clock, environ, unitFrames, i, raw_entries, season_keys, resolved, files>>

\* one iteration of "for i in range(4)"
SeasonIteration ==
    /\ pc = "season_loop"
    /\ i < SeasonWindow
    /\ \E response \in SeasonResponses :
         LET key == GetCurrentSeasonAndYear(clock, i)
             got == GetSeasonalAnime(environ, response)
         IN  /\ season_keys' = Append(season_keys, key)
             /\ requests' = IF got.requested
                            THEN Append(requests, [endpoint |-> "anime/season",
                                                   year |-> key.year, season |-> key.season,
                                                   failed |-> Failed(response)])
                            ELSE requests
             /\ error' = got.error
             /\ pc' = IF got.error = "" THEN "season_loop" ELSE "aborted"
             /\ raw_entries' = raw_entries \o got.data
             /\ i' = IF got.error = "" THEN i + 1 ELSE i
    /\ UNCHANGED <<clock, environ, unitFrames, mal_to_db_map, resolved, files>>

\* the TV and ONA filters, their concatenation and its resolution against tvdb
ResolveTv ==
    /\ pc = "season_loop"
    /\ i = SeasonWindow
    /\ LET tv_mal_ids_and_titles == FilterAnimeEntries(raw_entries, 780, 1000, Some("tv"))
           ona_mal_ids_and_titles == FilterAnimeEntries(raw_entries, 780, 1000, Some("ona"))
           combined_mal_ids_and_titles == tv_mal_ids_and_titles \o ona_mal_ids_and_titles
           got == MapMalToDb(combined_mal_ids_and_titles, mal_to_db_map, "tvdb")
       IN  resolved' = [resolved EXCEPT !.tvdb_ids = got.db_ids,
                                        !.tv_titles = got.found_titles]
    /\ pc' = "resolve_movies"
    /\ UNCHANGED <<clock, environ, unitFrames, i, mal_to_db_map, raw_entries, season_keys,
                   requests, error, files>>

\* the movie filter and its resolution against tmdb
ResolveMovies ==
    /\ pc = "resolve_movies"
    /\ LET movies_mal_ids_and_titles ==
               FilterAnimeEntries(raw_entries, 770, 1000, Some("movie"))
           got == MapMalToDb(movies_mal_ids_and_titles, mal_to_db_map, "tmdb")
       IN  resolved' = [resolved EXCEPT !.tmdb_ids_movies = got.db_ids,
                                        !.movie_titles = got.found_titles]
    /\ pc' = "write_tv_json"
    /\ UNCHANGED <<clock, environ, unitFrames, i, mal_to_db_map, raw_entries, season_keys,
                   requests, error, files>>

\* one "with open(path, 'w') ..." block
WriteStep(at, path, content, then) ==
    /\ pc = at
    /\ \E ok \in BOOLEAN :
         /\ files' = WriteFile(path, content, ok)
         /\ pc' = IF ok THEN then ELSE "aborted"
         /\ error' = IF ok THEN error ELSE "OSError"
    /\ UNCHANGED <<clock, environ, unitFrames, i, mal_to_db_map, raw_entries, season_keys,
                   requests, resolved>>

WriteTvJson ==
    WriteStep("write_tv_json", "filtered_anime.json", SonarrList(resolved.tvdb_ids),
              "write_tv_txt")

WriteTvTxt ==
    WriteStep("write_tv_txt", "filtered_anime.txt", TextReport(TvHeader, resolved.tv_titles),
              "write_movies_json")

WriteMoviesJson ==
    WriteStep("write_movies_json", "filtered_anime_movies.json",
              RadarrList(resolved.tmdb_ids_movies), "write_movies_txt")

WriteMoviesTxt ==
    WriteStep("write_movies_txt", "filtered_anime_movies.txt",
              TextReport(MovieHeader, resolved.movie_titles), "done")

Next ==
    \/ CreateMapping
    \/ SeasonIteration
    \/ ResolveTv
    \/ ResolveMovies
    \/ WriteTvJson
    \/ WriteTvTxt
    \/ WriteMoviesJson
    \/ WriteMoviesTxt

Spec == Init /\ [][Next]_vars

(***************************************************************************)
(* Calendar arithmetic, independent of the code: 3n months before month m  *)
(* of year y.                                                              *)
(***************************************************************************)
CalendarBack(y, m, n) ==
    LET total == (y * 12) + (m - 1) - (3 * n)
    IN  [year |-> total \div 12, month |-> (total % 12) + 1]

QuarterOf(month) ==
    CASE month \in 1..3 -> "winter"
      [] month \in 4..6 -> "spring"
      [] month \in 7..9 -> "summer"
      [] month \in 10..12 -> "fall"

\* C1: for every month, year and offset n in 0..12, the call returns the season
\* and the year of the calendar month 3n months before the current one.
C1_SeasonsBackMatchesCalendar ==
    seasonFrame.pc = "return" =>
        LET want == CalendarBack(clock.year, clock.month, seasonFrame.neg_seasons)
        IN  /\ seasonFrame.year = want.year
            /\ seasonFrame.season = QuarterOf(want.month)

\* C6: the filter returns exactly the (id, title) pairs of the entries that meet
\* both thresholds and the media type (ignoring case, when one is set), in input
\* order, one per qualifying entry; a missing score or vote count counts as 0.
\* It holds of the entries consumed so far at every point of the loop.
C6_MeanOf(e) == IF "mean" \in DOMAIN e.node THEN e.node.mean ELSE 0

C6_VotesOf(e) ==
    IF "num_scoring_users" \in DOMAIN e.node THEN e.node.num_scoring_users ELSE 0

C6_TypeOf(e) == IF "media_type" \in DOMAIN e.node THEN e.node.media_type ELSE ""

C6_Qualifies(e) ==
    /\ C6_MeanOf(e) >= filterFrame.min_score
    /\ C6_VotesOf(e) >= filterFrame.min_votes
    /\ \/ filterFrame.media_type_filter \in {None, Some("")}
       \/ Lower(C6_TypeOf(e)) = Lower(Val(filterFrame.media_type_filter))

C6_FilterExact ==
    filterFrame.pc \in {"loop", "return"} =>
        LET seen == SubSeq(filterFrame.entries, 1, filterFrame.idx)
            kept == SelectSeq(seen, C6_Qualifies)
        IN  filterFrame.filtered_ids_and_titles =
                [k \in 1..Len(kept) |-> <<kept[k].node.id, kept[k].node.title>>]

\* a finished call that kept a repeated source id, dropped an entry and met an
\* entry without a score
C6_Witness ==
    /\ filterFrame.pc = "return"
    /\ Len(filterFrame.filtered_ids_and_titles) = 2
    /\ filterFrame.filtered_ids_and_titles[1][1] = filterFrame.filtered_ids_and_titles[2][1]
    /\ Len(filterFrame.entries) = 3
    /\ \E k \in 1..3 : "mean" \notin DOMAIN filterFrame.entries[k].node
    /\ filterFrame.min_score = 780

\* C8: the table's keys are exactly the source ids of the records with a non-null
\* source id and a non-null tvdb or tmdb id, and each entry is the pair of ids of
\* the last such record, whole.  It holds of the records consumed so far at every
\* point of the loop.
C8_Field(r, f) == IF f \in DOMAIN r THEN r[f] ELSE None

C8_Retained(r) ==
    /\ C8_Field(r, "mal_id") # None
    /\ C8_Field(r, "tvdb_id") # None \/ C8_Field(r, "themoviedb_id") # None

C8_TableExact ==
    createFrame.pc \in {"loop", "return"} =>
        LET data == createFrame.data
            at == { k \in 1..createFrame.idx : C8_Retained(data[k]) }
            last(id) == CHOOSE k \in at :
                          /\ Val(data[k].mal_id) = id
                          /\ \A j \in at : Val(data[j].mal_id) = id => j <= k
            map == createFrame.mal_to_db_map
        IN  /\ DOMAIN map = { Val(data[k].mal_id) : k \in at }
            /\ \A id \in DOMAIN map :
                 /\ map[id].tvdb_id = C8_Field(data[last(id)], "tvdb_id")
                 /\ map[id].tmdb_id = C8_Field(data[last(id)], "themoviedb_id")

\* a finished build in which a source id occurred in two retained records that
\* carry different fields, and a record was dropped
C8_Witness ==
    /\ createFrame.pc = "return"
    /\ Len(createFrame.data) = 3
    /\ \E j, k \in 1..3 :
         /\ j < k
         /\ C8_Retained(createFrame.data[j]) /\ C8_Retained(createFrame.data[k])
         /\ createFrame.data[j].mal_id = createFrame.data[k].mal_id
         /\ C8_Field(createFrame.data[j], "tvdb_id") # None
         /\ C8_Field(createFrame.data[k], "tvdb_id") = None
    /\ \E k \in 1..3 : ~C8_Retained(createFrame.data[k])

(***************************************************************************)
(* What a candidate resolves to, read off the table alone.                 *)
(***************************************************************************)
\* the target id of candidate k, or None
TargetOf(k) ==
    LET id == mapFrame.mal_ids_and_titles[k][1]
        table == mapFrame.mal_to_db_map
    IN  IF id \in DOMAIN table THEN table[id][DbKey(mapFrame.db)] ELSE None

\* the audit line of candidate k: "sourceId->targetId: title", "?" when the source
\* id is not in the table
LineOf(k) ==
    LET id == mapFrame.mal_ids_and_titles[k][1]
        shown == IF id \in DOMAIN mapFrame.mal_to_db_map THEN Str(TargetOf(k))
                 ELSE << "?" >>
    IN  StrInt(id) \o << "-", ">" >> \o shown \o << ":", " " >>
            \o mapFrame.mal_ids_and_titles[k][2]

\* the lines of the candidates at the indices in S, in candidate order
RECURSIVE LinesOf(_, _)
LinesOf(S, n) ==
    IF n = 0 THEN << >>
    ELSE IF n \in S THEN Append(LinesOf(S, n - 1), LineOf(n))
    ELSE LinesOf(S, n - 1)

\* the target id a found line shows between "->" and ": "
TargetShown(line) ==
    LET from == CHOOSE k \in 1..Len(line) : line[k] = ">"
        to == CHOOSE k \in 1..Len(line) : line[k] = ":"
    IN  ParseInt(SubSeq(line, from + 1, to - 1))

\* C2 as stated: every candidate contributes exactly one line, to found if and
\* only if it resolves to a non-null target id, to unknown otherwise.
C2_EveryCandidateOneLine ==
    mapFrame.pc = "return" =>
        LET n == Len(mapFrame.mal_ids_and_titles)
            hit == { k \in 1..n : TargetOf(k) # None }
        IN  /\ Len(mapFrame.found_titles) + Len(mapFrame.unknown_titles) = n
            /\ mapFrame.found_titles = LinesOf(hit, n)
            /\ mapFrame.unknown_titles = LinesOf((1..n) \ hit, n)

\* C2 amended: every candidate contributes at most one line; exactly one to
\* unknown if and only if its source id is absent from the table or has a null id
\* for the target system; exactly one to found if and only if it resolves to a
\* non-null target id that no earlier candidate of the pass resolved to; and none
\* when an earlier candidate resolved to the same target id.  It holds of the
\* candidates consumed so far at every point of the pass.
C2_FirstPerTargetOneLine ==
    mapFrame.pc \in {"loop", "return"} =>
        LET n == mapFrame.idx
            hit == { k \in 1..n : TargetOf(k) # None }
            first == { k \in hit : \A j \in hit : j < k => TargetOf(j) # TargetOf(k) }
        IN  /\ mapFrame.found_titles = LinesOf(first, n)
            /\ mapFrame.unknown_titles = LinesOf((1..n) \ hit, n)
            /\ Len(mapFrame.found_titles) + Len(mapFrame.unknown_titles)
                   = n - Cardinality(hit \ first)

\* a finished pass with a found, an unknown and a silently skipped candidate
C2_Witness ==
    /\ mapFrame.pc = "return"
    /\ Len(mapFrame.mal_ids_and_titles) = 3
    /\ Len(mapFrame.found_titles) = 1
    /\ Len(mapFrame.unknown_titles) = 1

\* C3: at every point of a pass and in its result no target id occurs twice: the
\* found lines show pairwise different target ids, one line per returned id.
C3_NoTargetTwice ==
    mapFrame.pc \in {"loop", "return"} =>
        LET found == mapFrame.found_titles
        IN  /\ \A j, k \in 1..Len(found) :
                 j # k => TargetShown(found[j]) # TargetShown(found[k])
            /\ { TargetShown(found[k]) : k \in 1..Len(found) } = mapFrame.db_ids
            /\ Len(found) = Cardinality(mapFrame.db_ids)

\* a finished pass in which one target id was reached from two different source
\* ids and from one source id twice
C3_Witness ==
    /\ mapFrame.pc = "return"
    /\ Len(mapFrame.mal_ids_and_titles) = 3
    /\ \A k \in 1..3 : TargetOf(k) = Some(10)
    /\ mapFrame.mal_ids_and_titles[1][1] # mapFrame.mal_ids_and_titles[2][1]
    /\ mapFrame.mal_ids_and_titles[2] = mapFrame.mal_ids_and_titles[3]
    /\ Cardinality(mapFrame.db_ids) = 1

\* C9: the id set a pass returns is the same for every permutation of its
\* candidate list (TV then ONA, or ONA then TV), and the line kept for a target id
\* is that of the first candidate that resolves to it.
PermutationsOf(n) == { p \in [1..n -> 1..n] : \A j, k \in 1..n : p[j] = p[k] => j = k }

C9_OrderIndependentIds ==
    mapFrame.pc = "return" =>
        LET cands == mapFrame.mal_ids_and_titles
            n == Len(cands)
            hit == { k \in 1..n : TargetOf(k) # None }
        IN  /\ \A p \in PermutationsOf(n) :
                 MapMalToDb([k \in 1..n |-> cands[p[k]]], mapFrame.mal_to_db_map,
                            mapFrame.db).db_ids = mapFrame.db_ids
            /\ \A k \in 1..n :
                 MapMalToDb(SubSeq(cands, k + 1, n) \o SubSeq(cands, 1, k),
                            mapFrame.mal_to_db_map, mapFrame.db).db_ids = mapFrame.db_ids
            /\ \A t \in mapFrame.db_ids :
                 LET k == CHOOSE k \in hit :
                            /\ Val(TargetOf(k)) = t
                            /\ \A j \in hit : Val(TargetOf(j)) = t => k <= j
                 IN  \E m \in 1..Len(mapFrame.found_titles) :
                        /\ mapFrame.found_titles[m] = LineOf(k)
                        /\ \A q \in 1..Len(mapFrame.found_titles) :
                             TargetShown(mapFrame.found_titles[q]) = t => q = m

\* a finished pass whose second candidate shares its target id with the first but
\* carries another title, next to a candidate with another target id
C9_Witness ==
    /\ mapFrame.pc = "return"
    /\ Len(mapFrame.mal_ids_and_titles) = 3
    /\ TargetOf(1) # None /\ TargetOf(1) = TargetOf(2)
    /\ mapFrame.mal_ids_and_titles[1][2] # mapFrame.mal_ids_and_titles[2][2]
    /\ Cardinality(mapFrame.db_ids) = 2

(***************************************************************************)
(* main(): the claims about a whole run                                    *)
(***************************************************************************)
\* C4 as stated: when MAL_CLIENT_ID is absent or empty the run ends with the
\* configuration error and has issued no network request at all.
C4_NoRequestWithoutCredential ==
    environ = "" =>
        /\ requests = << >>
        /\ pc \in {"done", "aborted"} => error = "ValueError"

\* C5: a run that completes has written all four files; a run never stops
\* anywhere but at completion or on an error; and once a request to the mapping
\* feed or to the catalog has failed (no answer, an error status, a document that
\* does not parse) or the credential was found missing, no output file is
\* touched.
C5_AllOrNothingOnFetchFailure ==
    /\ pc = "done" => \A f \in FileNames : files[f].state = "written"
    /\ pc = "done" => error = ""
    /\ pc = "aborted" => error # ""
    /\ pc \notin {"done", "aborted"} =>
         \/ ENABLED CreateMapping
         \/ ENABLED SeasonIteration
         \/ pc = "season_loop" /\ i = SeasonWindow
         \/ pc = "resolve_movies"
         \/ ENABLED WriteTvJson \/ ENABLED WriteTvTxt
         \/ ENABLED WriteMoviesJson \/ ENABLED WriteMoviesTxt
    /\ (\/ \E k \in 1..Len(requests) : requests[k].failed
        \/ error \in {"ValueError", "ConnectionError", "HTTPError", "JSONDecodeError"})
         => \A f \in FileNames : files[f].state = "previous"

\* a run that completed after five successful requests
C5_Witness ==
    /\ pc = "done"
    /\ Len(requests) = 5
    /\ resolved.tvdb_ids # {}

\* a run aborted by the catalog's error status on its third season
C5_WitnessAbort ==
    /\ pc = "aborted"
    /\ error = "HTTPError"
    /\ Len(requests) = 4

\* str.splitlines() of a text without a trailing empty line
RECURSIVE SplitLines(_)
SplitLines(text) ==
    IF Len(text) = 0 THEN << >>
    ELSE IF \E k \in 1..Len(text) : text[k] = "\n"
         THEN LET k == CHOOSE k \in 1..Len(text) :
                         text[k] = "\n" /\ \A j \in 1..(k - 1) : text[j] # "\n"
              IN  << SubSeq(text, 1, k - 1) >> \o SplitLines(SubSeq(text, k + 1, Len(text)))
         ELSE << text >>

\* the number of times x occurs in q
Count(q, x) == Cardinality({ k \in 1..Len(q) : q[k] = x })

\* q is the lines of titles in lexicographic order
SortedLinesOf(q, titles) ==
    /\ Len(q) = Len(titles)
    /\ \A k \in 1..Len(q) : Count(q, q[k]) = Count(titles, q[k])
    /\ \A k \in 1..(Len(q) - 1) : ~StrLess(q[k + 1], q[k])

\* C7: a written JSON output is an array of single-field objects whose ids are
\* strictly ascending as integers and parse back to exactly the resolved id set;
\* a written text output is the header line followed by the found audit lines in
\* lexicographic order.
C7_OutputsRoundTrip ==
    /\ files["filtered_anime.json"].state = "written" =>
         LET doc == files["filtered_anime.json"].content
         IN  /\ \A k \in 1..Len(doc) : DOMAIN doc[k] = {"tvdbId"}
             /\ \A j, k \in 1..Len(doc) :
                  j < k => ParseInt(doc[j].tvdbId) < ParseInt(doc[k].tvdbId)
             /\ { ParseInt(doc[k].tvdbId) : k \in 1..Len(doc) } = resolved.tvdb_ids
    /\ files["filtered_anime_movies.json"].state = "written" =>
         LET doc == files["filtered_anime_movies.json"].content
         IN  /\ \A k \in 1..Len(doc) : DOMAIN doc[k] = {"id"}
             /\ \A j, k \in 1..Len(doc) :
                  j < k => ParseInt(doc[j].id) < ParseInt(doc[k].id)
             /\ { ParseInt(doc[k].id) : k \in 1..Len(doc) } = resolved.tmdb_ids_movies
    /\ files["filtered_anime.txt"].state = "written" =>
         LET lines == SplitLines(files["filtered_anime.txt"].content)
         IN  /\ Len(lines) >= 1
             /\ lines[1] = TvHeader
             /\ SortedLinesOf(Tail(lines), resolved.tv_titles)
    /\ files["filtered_anime_movies.txt"].state = "written" =>
         LET lines == SplitLines(files["filtered_anime_movies.txt"].content)
         IN  /\ Len(lines) >= 1
             /\ lines[1] = MovieHeader
             /\ SortedLinesOf(Tail(lines), resolved.movie_titles)

\* a completed run whose TV ids have one, two and three digits and whose found
\* lines were met in another order than the sorted one
C7_Witness ==
    /\ pc = "done"
    /\ resolved.tvdb_ids = {9, 10, 101}
    /\ resolved.tmdb_ids_movies = {7, 12}
    /\ Len(resolved.tv_titles) = 3
    /\ StrLess(resolved.tv_titles[3], resolved.tv_titles[2])

\* C10: the season keys main() computes for offsets 0, 1, 2, 3 are the current
\* quarter and the three before it, each with its year, pairwise distinct; the
\* year drops by one exactly at a step from winter to fall; the month that
\* reaches the bucket test is in 1..12; and the seasons are requested in that
\* order.
PreviousQuarter(season) ==
    CASE season = "winter" -> "fall"
      [] season = "fall" -> "summer"
      [] season = "summer" -> "spring"
      [] season = "spring" -> "winter"

IsSeasonRequest(r) == r.endpoint = "anime/season"

C10_FourConsecutiveQuarters ==
    LET n == Len(season_keys)
        asked == SelectSeq(requests, IsSeasonRequest)
    IN  /\ n <= 4
        /\ \A k \in 1..n :
             LET want == CalendarBack(clock.year, clock.month, k - 1)
             IN  /\ season_keys[k].month \in 1..12
                 /\ season_keys[k].year = want.year
                 /\ season_keys[k].season = QuarterOf(want.month)
        /\ \A j, k \in 1..n :
             j # k => <<season_keys[j].season, season_keys[j].year>>
                        # <<season_keys[k].season, season_keys[k].year>>
        /\ \A k \in 1..(n - 1) :
             /\ season_keys[k + 1].season = PreviousQuarter(season_keys[k].season)
             /\ season_keys[k + 1].year =
                  season_keys[k].year - (IF season_keys[k].season = "winter" THEN 1 ELSE 0)
        /\ Len(asked) <= n
        /\ \A k \in 1..Len(asked) :
             /\ asked[k].year = season_keys[k].year
             /\ asked[k].season = season_keys[k].season

\* four seasons fetched from a March: the second offset lands on month 12 of the
\* year before
C10_Witness ==
    /\ Len(season_keys) = 4
    /\ Len(requests) = 5
    /\ clock.month = 3
    /\ season_keys[2].month = 12
    /\ season_keys[2].year = clock.year - 1

====
